---- MODULE Spec2Model ----
(***************************************************************************)
(* Planning backend: the events table, the audit log and the planning      *)
(* templates, as changed by the HTTP handlers of routes/events.js and      *)
(* routes/planning.js through services/eventService.js and                 *)
(* services/auditService.js.                                               *)
(*                                                                         *)
(* Time is counted in whole hours since Monday 00:00 of week 0, in one     *)
(* fixed time zone without daylight saving.  The audit clock `now` counts  *)
(* days.  A request is executed one awaited database statement at a time;  *)
(* the database is PostgreSQL at its default isolation level (READ         *)
(* COMMITTED): a statement sees the rows committed when it starts plus the *)
(* writes of its own transaction, and a row written by an open transaction *)
(* is locked against the writes of the others.                             *)
(***************************************************************************)
EXTENDS Integers, Sequences, FiniteSets, TLC

VARIABLES events,      \* committed rows of table events
          audit_logs,  \* committed rows of table audit_logs, in commit order
          templates,   \* committed rows of table planning_templates
          nextId,      \* next identifier the database generates
          now,         \* the clock (days)
          users,       \* committed rows of table users, by uid
          customClaims, \* the role claim of each uid in the identity service
          rq,          \* the requests being served, per connection slot
          nops,        \* requests started so far
          origin       \* history: per stored event id, how its row was written

vars == <<events, audit_logs, templates, nextId, now, users, customClaims, rq, nops, origin>>

----------------------------------------------------------------------------
(* Bounds of the model *)

MaxOps == 3       \* requests started in one behaviour
MaxClock == 1     \* last value of the clock
MaxSlots == 2     \* requests served at the same time

(* Program constants *)

DayHours == 24
WeekLastDay == 6
OpenHour == 10
CloseHour == 23
MaxBulk == 50

NULL == "NULL"
EmptyJson == "{}"

Slots == 1..MaxSlots

ValidTeams == {"bar", "animation", "reception"}

----------------------------------------------------------------------------
(* Users as the authentication middleware hands them to the handlers *)

InitialUsers ==
  [admin1 |-> [role |-> "admin", teams |-> {}],
   mgr1 |-> [role |-> "manager", teams |-> {"bar"}]]

Actors == DOMAIN users

\* the custom claims of the identity service: the role set for each uid
InitialClaims == [uid \in DOMAIN InitialUsers |-> InitialUsers[uid].role]

requireRole(allowedRoles, uid) == users[uid].role \in allowedRoles

requireWritePermissions(uid) == requireRole({"admin", "manager"}, uid)

\* "ok", or the status of the refusal
requireTeamAccess(uid, requestedTeam) ==
  IF requestedTeam = NULL THEN 400
  ELSE IF requestedTeam \notin ValidTeams THEN 400
  ELSE IF users[uid].role = "admin" THEN 0
  ELSE IF requestedTeam \notin users[uid].teams THEN 403
  ELSE 0

----------------------------------------------------------------------------
(* Rows *)

EventColumns ==
  {"id", "title", "start_time", "end_time", "team", "animator", "color",
   "description", "metadata", "created_by", "last_modified_by",
   "created_at", "updated_at"}

\* column defaults of migration 002_create_events
EventDefault(col, id) ==
  CASE col = "id" -> id
    [] col = "metadata" -> EmptyJson
    [] col \in {"created_at", "updated_at"} -> now
    [] OTHER -> NULL

\* INSERT INTO events: the given columns, the defaults for the others
InsertedRow(cols, id) ==
  [c \in EventColumns |-> IF c \in DOMAIN cols THEN cols[c] ELSE EventDefault(c, id)]

\* UPDATE events SET patch: the given columns replaced, the others kept
UpdatedRow(row, patch) ==
  [c \in EventColumns |-> IF c \in DOMAIN patch THEN patch[c] ELSE row[c]]

Ids(rows) == {e.id : e \in rows}

\* a record as a function extended by / overridden with another
Merge(base, over) ==
  [k \in DOMAIN base \cup DOMAIN over |-> IF k \in DOMAIN over THEN over[k] ELSE base[k]]

----------------------------------------------------------------------------
(* An optional value: <<>> is null or undefined, <<v>> is the value v *)

None == <<>>
Some(v) == <<v>>
IsSome(o) == Len(o) > 0

----------------------------------------------------------------------------
(* Request validation, middleware/validation.js *)

KnownEventKeys ==
  {"title", "start_time", "end_time", "team", "animator", "color",
   "description", "metadata"}

Has(body, k) == k \in DOMAIN body

\* schemas.event: the error of the body, if any
EventSchemaError(body) ==
  \/ ~Has(body, "title") \/ body.title = ""
  \/ ~Has(body, "start_time")
  \/ ~Has(body, "end_time")
  \/ (Has(body, "start_time") /\ Has(body, "end_time") /\ body.end_time < body.start_time)
  \/ ~Has(body, "team") \/ body.team \notin ValidTeams

\* a validation without stripUnknown: every key of the body is kept
EventSchemaValue_keepsUnknown(body) ==
  [k \in DOMAIN body \cup {"metadata"} |-> IF k \in DOMAIN body THEN body[k] ELSE EmptyJson]

\* validate('event'): the validated value, unknown keys stripped, metadata defaulted
EventSchemaValue(body) ==
  [k \in (DOMAIN body \cap KnownEventKeys) \cup {"metadata"} |->
     IF k \in DOMAIN body THEN body[k] ELSE EmptyJson]

\* getHours() of an instant
HourOf(t) == t % DayHours

validateBusinessHours(body) ==
  IF ~Has(body, "start_time") \/ ~Has(body, "end_time") THEN TRUE
  ELSE ~(HourOf(body.start_time) < OpenHour \/ HourOf(body.end_time) > CloseHour)

----------------------------------------------------------------------------
(* services/eventService.js: the queries *)

\* checkEventConflicts without its third case (the new event encloses a stored one)
checkEventConflicts_noEnclosed(rows, startTime, endTime, team, excludeEventId) ==
  {e \in rows :
     /\ e.team = team
     /\ \/ (e.start_time <= startTime /\ e.end_time > startTime)
        \/ (e.start_time < endTime /\ e.end_time >= endTime)
     /\ (IsSome(excludeEventId) => e.id # excludeEventId[1])}

\* checkEventConflicts without its first case (the new event starts during a stored one)
checkEventConflicts_noStartInside(rows, startTime, endTime, team, excludeEventId) ==
  {e \in rows :
     /\ e.team = team
     /\ \/ (e.start_time < endTime /\ e.end_time >= endTime)
        \/ (e.start_time >= startTime /\ e.end_time <= endTime)
     /\ (IsSome(excludeEventId) => e.id # excludeEventId[1])}

\* the rows of `rows` that checkEventConflicts(startTime, endTime, team,
\* excludeEventId) returns; excludeEventId is an optional id
checkEventConflicts(rows, startTime, endTime, team, excludeEventId) ==
  {e \in rows :
     /\ e.team = team
     /\ \/ (e.start_time <= startTime /\ e.end_time > startTime)
        \/ (e.start_time < endTime /\ e.end_time >= endTime)
        \/ (e.start_time >= startTime /\ e.end_time <= endTime)
     /\ (IsSome(excludeEventId) => e.id # excludeEventId[1])}

\* moment(t).add(6, 'days').endOf('day'): the last instant of that day
WeekEnd(weekStart) ==
  ((weekStart + WeekLastDay * DayHours) \div DayHours) * DayHours + (DayHours - 1)

\* WHERE team = team AND start_time BETWEEN weekStart AND weekEnd
InWeek(e, weekStart, team) ==
  /\ e.team = team
  /\ weekStart <= e.start_time
  /\ e.start_time <= WeekEnd(weekStart)

\* a window query without its team condition
getWeekEvents_anyTeam(rows, weekStart, team) ==
  {e \in rows : weekStart <= e.start_time /\ e.start_time <= WeekEnd(weekStart)}

getWeekEvents(rows, weekStart, team) == {e \in rows : InWeek(e, weekStart, team)}

\* getEventById(eventId): the optional row
getEventById(rows, eventId) ==
  IF \E e \in rows : e.id = eventId
  THEN Some(CHOOSE e \in rows : e.id = eventId)
  ELSE None

\* the orders in which a query without ORDER BY can return the rows
RECURSIVE Orders(_)
Orders(rows) ==
  IF rows = {} THEN {<<>>}
  ELSE UNION {{<<e>> \o s : s \in Orders(rows \ {e})} : e \in rows}

\* ORDER BY start_time ASC: the orders in which the query can return the
\* rows, rows of equal start_time in either order
OrderByStart(rows) ==
  {s \in Orders(rows) :
     \A i, j \in 1..Len(s) : i < j => s[i].start_time <= s[j].start_time}

----------------------------------------------------------------------------
(* services/auditService.js *)

DateColumns == {"start_time", "end_time", "created_at", "updated_at"}

\* toJSON of a Date: its ISO string
ISO(t) == <<"iso", t>>

\* JSON.stringify of a row read from the database
JSONstringify(row) ==
  [c \in DOMAIN row |-> IF c \in DateColumns THEN ISO(row[c]) ELSE row[c]]

\* the row logAction inserts into audit_logs; old_values and new_values are
\* optional rows
logEntry(table_name, record_id, action, user_uid, old_values, new_values) ==
  [table_name |-> table_name,
   record_id |-> record_id,
   action |-> action,
   user_uid |-> user_uid,
   old_values |-> IF IsSome(old_values) THEN Some(JSONstringify(old_values[1])) ELSE None,
   new_values |-> IF IsSome(new_values) THEN Some(JSONstringify(new_values[1])) ELSE None,
   ip_address |-> NULL,
   user_agent |-> NULL,
   created_at |-> now]

----------------------------------------------------------------------------
(* Transactions (knex on PostgreSQL, READ COMMITTED) *)

\* the writes of an open transaction: rows inserted, rows updated (their new
\* versions), ids deleted, audit rows inserted
EmptyTrx == [ins |-> {}, upd |-> {}, del |-> {}, aud |-> <<>>]

\* the events a statement of transaction t sees
View(t) ==
  {e \in events : e.id \notin t.del /\ e.id \notin Ids(t.upd)} \cup t.upd \cup t.ins

\* the ids whose committed rows transaction t has written, hence locked
LockedBy(t) == t.del \cup Ids(t.upd)

trxInsert(t, row) == [t EXCEPT !.ins = @ \cup {row}]

trxLog(t, entry) == [t EXCEPT !.aud = Append(@, entry)]

\* UPDATE ... WHERE id = eventId, of the visible row `old` to `new`
trxUpdate(t, old, new) ==
  IF old \in t.ins
  THEN [t EXCEPT !.ins = (@ \ {old}) \cup {new}]
  ELSE [t EXCEPT !.upd = {e \in @ : e.id # old.id} \cup {new}]

\* DELETE of the visible rows `rows`
trxDelete(t, rows) ==
  [t EXCEPT !.ins = @ \ rows,
            !.upd = {e \in @ : e.id \notin Ids(rows)},
            !.del = @ \cup Ids({e \in rows : e.id \in Ids(events)})]

\* trx.commit(): the tables after the commit
CommitEvents(t) == View(t)

\* an audit insert that replaces the rows already logged for the same record
CommitAudit_upsert(t) ==
  SelectSeq(audit_logs,
            LAMBDA e : \A i \in 1..Len(t.aud) : t.aud[i].record_id # e.record_id) \o t.aud

CommitAudit(t) == audit_logs \o t.aud

\* a rollback that leaves the event writes in place, as writes made through
\* db instead of trx would be
RollbackEvents_keepsWrites(t) == View(t)

\* trx.rollback(): the tables after the rollback
RollbackEvents(t) == events

\* a rollback that leaves the audit rows in place, as logAction called with
\* db instead of trx would
RollbackAudit_keepsEntries(t) == audit_logs \o t.aud

RollbackAudit(t) == audit_logs

\* NOT NULL and enum constraints of table events, and its columns
InsertOk(cols) ==
  /\ DOMAIN cols \subseteq EventColumns
  /\ \A c \in {"title", "start_time", "end_time", "team", "created_by"} : c \in DOMAIN cols
  /\ cols.team \in ValidTeams

----------------------------------------------------------------------------
(* Requests.  rq[r] holds the request served in slot r: the route (op), the
   awaited statement it is at (pc), the authenticated user (uid), the request
   parameters (arg), its open transaction (trx), the handler's local variables
   (loc) and, once answered, the response (status, out). *)

IdleRq ==
  [op |-> "none", pc |-> "idle", uid |-> NULL, arg |-> <<>>, trx |-> EmptyTrx,
   loc |-> <<>>, status |-> 0, out |-> <<>>]

InFlight(r) == rq[r].pc \notin {"idle", "done"}

\* a new request can be accepted in slot r
CanStart(r) == ~InFlight(r) /\ nops < MaxOps

\* the request q answered with `status` and body `out`; the record of a
\* refused or failed request keeps only the route and the response
Respond(q, status, out) ==
  [q EXCEPT !.pc = "done", !.trx = EmptyTrx, !.loc = <<>>, !.status = status, !.out = out,
            !.uid = IF status < 300 THEN @ ELSE NULL,
            !.arg = IF status < 300 THEN @ ELSE <<>>]

Accepted(op, uid, arg, pc, loc) ==
  [op |-> op, pc |-> pc, uid |-> uid, arg |-> arg, trx |-> EmptyTrx,
   loc |-> loc, status |-> 0, out |-> <<>>]

Refused(op, uid, arg, status) ==
  [op |-> op, pc |-> "done", uid |-> NULL, arg |-> <<>>, trx |-> EmptyTrx,
   loc |-> <<>>, status |-> status, out |-> <<>>]

\* a row of another open transaction's writes is locked against slot r
LockedAgainst(r, id) ==
  \E o \in Slots \ {r} : InFlight(o) /\ id \in LockedBy(rq[o].trx)

\* history: the rows `rows` were written by route `op`, whose conflict check
\* (if it ran one) read the committed rows `seen`
Written(rows, op, checked, seen) ==
  Merge(origin, [i \in Ids(rows) |-> [op |-> op, checked |-> checked, seen |-> seen]])

\* a conflict list that names one of the conflicting events only
ConflictList_firstOnly(conflicts) ==
  IF conflicts = {} THEN {}
  ELSE LET e == CHOOSE c \in conflicts : \A d \in conflicts : c.id <= d.id
       IN {[id |-> e.id, title |-> e.title, start |-> e.start_time, end |-> e.end_time]}

\* conflicts.map(...): what the 409 response lists of each conflicting event
ConflictList(conflicts) ==
  {[id |-> e.id, title |-> e.title, start |-> e.start_time, end |-> e.end_time] :
     e \in conflicts}

----------------------------------------------------------------------------
(* POST /api/events *)

StartCreate(r, uid, body) ==
  /\ CanStart(r)
  /\ nops' = nops + 1
  /\ rq' = [rq EXCEPT ![r] =
       IF ~requireWritePermissions(uid) THEN Refused("create", uid, body, 403)
       ELSE IF EventSchemaError(body) THEN Refused("create", uid, body, 400)
       ELSE IF ~validateBusinessHours(EventSchemaValue(body))
         THEN Refused("create", uid, body, 400)
       ELSE Accepted("create", uid, body, "check",
                     [body |-> EventSchemaValue(body), id |-> None])]
  /\ UNCHANGED <<events, audit_logs, templates, nextId, now, users, customClaims, origin>>

\* validateEventConflicts, then (POST only) requireTeamAccess
validateEventConflicts(r) ==
  /\ rq[r].pc = "check"
  /\ LET q == rq[r]
         b == q.loc.body
         conflicts == checkEventConflicts(events, b.start_time, b.end_time, b.team, q.loc.id)
     IN rq' = [rq EXCEPT ![r] =
          IF conflicts # {}
            THEN Respond(q, 409, ConflictList(conflicts))
          ELSE IF q.op = "create" /\ requireTeamAccess(q.uid, b.team) # 0
            THEN Respond(q, requireTeamAccess(q.uid, b.team), <<>>)
          ELSE IF q.op = "create"
            THEN [q EXCEPT !.pc = "ce_insert", !.loc = [eventData |-> b, seen |-> events]]
          ELSE [q EXCEPT !.pc = "ue_select", !.loc = [updateData |-> b, seen |-> events]]]
  /\ UNCHANGED <<events, audit_logs, templates, nextId, now, users, customClaims, nops, origin>>

----------------------------------------------------------------------------
(* POST /api/planning/bulk-create: the loop over req.body.events *)

\* the loop from its i-th event (1-based) on, up to the next awaited statement
RECURSIVE BulkLoop(_, _, _, _)
BulkLoop(q, i, created, errors) ==
  IF i > Len(q.arg.events)
  THEN Respond(q, 200, [created_events |-> created, errors |-> errors])
  ELSE LET eventData == q.arg.events[i]
       IN IF /\ users[q.uid].role # "admin"
             /\ (~Has(eventData, "team") \/ eventData.team \notin users[q.uid].teams)
          THEN BulkLoop(q, i + 1, created, Append(errors, [index |-> i - 1]))
          ELSE [q EXCEPT !.pc = "ce_insert", !.trx = EmptyTrx,
                         !.loc = [eventData |-> eventData, seen |-> {}, i |-> i,
                                  created |-> created, errors |-> errors]]

\* res.status(500).json({ error: 'Erreur serveur', message: error.message })
ServerError(message) == [error |-> "Erreur serveur", message |-> message]

\* a catch outside the loop of bulk-create: the first failure ends the loop
Caught_endsLoop(q, message) ==
  IF q.op = "bulk"
  THEN Respond(q, 200, [created_events |-> q.loc.created,
                        errors |-> Append(q.loc.errors, [index |-> q.loc.i - 1])])
  ELSE Respond(q, 500, ServerError(message))

\* the handler after the service function it awaits has thrown an error of
\* message `message`
Caught(q, message) ==
  IF q.op = "bulk"
  THEN BulkLoop(q, q.loc.i + 1, q.loc.created, Append(q.loc.errors, [index |-> q.loc.i - 1]))
  ELSE Respond(q, 500, ServerError(message))

\* catch (error) { await trx.rollback(); throw error; } and the route's catch
Throws(r, message) ==
  /\ events' = RollbackEvents(rq[r].trx)
  /\ audit_logs' = RollbackAudit(rq[r].trx)
  /\ rq' = [rq EXCEPT ![r] = Caught(@, message)]

\* the message of the error thrown by the statement awaited at pc
StorageError(pc) == "storage error at " \o pc

----------------------------------------------------------------------------
(* EventService.createEvent *)

createEvent_insert(r) ==
  /\ rq[r].pc = "ce_insert"
  /\ LET q == rq[r]
         event == Merge(q.loc.eventData,
                        [created_by |-> q.uid, created_at |-> now, updated_at |-> now])
         newEvent == InsertedRow(event, nextId)
     IN IF InsertOk(event)
        THEN /\ rq' = [rq EXCEPT ![r] =
                  [q EXCEPT !.pc = "ce_audit", !.trx = trxInsert(@, newEvent),
                            !.loc = Merge(@, [newEvent |-> newEvent])]]
             /\ nextId' = nextId + 1
             /\ UNCHANGED <<events, audit_logs>>
        ELSE Throws(r, "constraint violation") /\ UNCHANGED nextId
  /\ UNCHANGED <<templates, now, users, customClaims, nops, origin>>

createEvent_logAction(r) ==
  /\ rq[r].pc = "ce_audit"
  /\ LET q == rq[r]
         newEvent == q.loc.newEvent
     IN rq' = [rq EXCEPT ![r] =
          [q EXCEPT !.pc = "ce_commit",
                    !.trx = trxLog(@, logEntry("events", newEvent.id, "CREATE", q.uid,
                                               None, Some(newEvent)))]]
  /\ UNCHANGED <<events, audit_logs, templates, nextId, now, users, customClaims, nops, origin>>

createEvent_commit(r) ==
  /\ rq[r].pc = "ce_commit"
  /\ LET q == rq[r]
     IN /\ events' = CommitEvents(q.trx)
        /\ audit_logs' = CommitAudit(q.trx)
        /\ origin' = Written(q.trx.ins, q.op, q.op = "create", q.loc.seen)
        /\ rq' = [rq EXCEPT ![r] =
             IF q.op = "bulk"
             THEN BulkLoop(q, q.loc.i + 1, Append(q.loc.created, q.loc.newEvent), q.loc.errors)
             ELSE Respond(q, 201, q.loc.newEvent)]
  /\ UNCHANGED <<templates, nextId, now, users, customClaims, nops>>

----------------------------------------------------------------------------
(* PUT /api/events/:id and DELETE /api/events/:id *)

StartUpdate(r, uid, id, body) ==
  /\ CanStart(r)
  /\ nops' = nops + 1
  /\ rq' = [rq EXCEPT ![r] = Accepted("update", uid, [id |-> id, body |-> body], "own", <<>>)]
  /\ UNCHANGED <<events, audit_logs, templates, nextId, now, users, customClaims, origin>>

StartDelete(r, uid, id) ==
  /\ CanStart(r)
  /\ nops' = nops + 1
  /\ rq' = [rq EXCEPT ![r] = Accepted("delete", uid, [id |-> id], "own", <<>>)]
  /\ UNCHANGED <<events, audit_logs, templates, nextId, now, users, customClaims, origin>>

\* requireEventOwnership, then (PUT only) validate('event') and validateBusinessHours
requireEventOwnership(r) ==
  /\ rq[r].pc = "own"
  /\ LET q == rq[r]
         event == getEventById(events, q.arg.id)
         allowed ==
           \/ users[q.uid].role = "admin"
           \/ (users[q.uid].role = "manager" /\ event[1].team \in users[q.uid].teams)
           \/ event[1].created_by = q.uid
     IN rq' = [rq EXCEPT ![r] =
          IF ~IsSome(event) THEN Respond(q, 404, <<>>)
          ELSE IF ~allowed THEN Respond(q, 403, <<>>)
          ELSE IF q.op = "delete" THEN [q EXCEPT !.pc = "de_select"]
          ELSE IF EventSchemaError(q.arg.body) THEN Respond(q, 400, <<>>)
          ELSE IF ~validateBusinessHours(EventSchemaValue(q.arg.body)) THEN Respond(q, 400, <<>>)
          ELSE [q EXCEPT !.pc = "check",
                         !.loc = [body |-> EventSchemaValue(q.arg.body), id |-> Some(q.arg.id)]]]
  /\ UNCHANGED <<events, audit_logs, templates, nextId, now, users, customClaims, nops, origin>>

----------------------------------------------------------------------------
(* EventService.updateEvent *)

updateEvent_select(r) ==
  /\ rq[r].pc = "ue_select"
  /\ LET q == rq[r]
         oldEvent == getEventById(View(q.trx), q.arg.id)
     IN IF IsSome(oldEvent)
        THEN /\ rq' = [rq EXCEPT ![r] =
                  [q EXCEPT !.pc = "ue_update", !.loc = Merge(@, [oldEvent |-> oldEvent[1]])]]
             /\ UNCHANGED <<events, audit_logs>>
        ELSE Throws(r, "not found")
  /\ UNCHANGED <<templates, nextId, now, users, customClaims, nops, origin>>

\* UPDATE events SET ... WHERE id = eventId RETURNING *: waits for the row's lock;
\* no row is returned when the row is gone
updateEvent_update(r) ==
  /\ rq[r].pc = "ue_update"
  /\ ~LockedAgainst(r, rq[r].arg.id)
  /\ LET q == rq[r]
         updatedEvent == Merge(q.loc.updateData,
                               [last_modified_by |-> q.uid, updated_at |-> now])
         row == getEventById(View(q.trx), q.arg.id)
         event == IF IsSome(row) THEN Some(UpdatedRow(row[1], updatedEvent)) ELSE None
     IN rq' = [rq EXCEPT ![r] =
          [q EXCEPT !.pc = "ue_audit",
                    !.trx = IF IsSome(row) THEN trxUpdate(@, row[1], event[1]) ELSE @,
                    !.loc = Merge(@, [event |-> event])]]
  /\ UNCHANGED <<events, audit_logs, templates, nextId, now, users, customClaims, nops, origin>>

updateEvent_logAction(r) ==
  /\ rq[r].pc = "ue_audit"
  /\ LET q == rq[r]
     IN rq' = [rq EXCEPT ![r] =
          [q EXCEPT !.pc = "ue_commit",
                    !.trx = trxLog(@, logEntry("events", q.arg.id, "UPDATE", q.uid,
                                               Some(q.loc.oldEvent), q.loc.event))]]
  /\ UNCHANGED <<events, audit_logs, templates, nextId, now, users, customClaims, nops, origin>>

updateEvent_commit(r) ==
  /\ rq[r].pc = "ue_commit"
  /\ LET q == rq[r]
     IN /\ events' = CommitEvents(q.trx)
        /\ audit_logs' = CommitAudit(q.trx)
        /\ origin' = Written(q.trx.upd, "update", TRUE, q.loc.seen)
        /\ rq' = [rq EXCEPT ![r] = Respond(q, 200, q.loc.event)]
  /\ UNCHANGED <<templates, nextId, now, users, customClaims, nops>>

----------------------------------------------------------------------------
(* EventService.deleteEvent *)

deleteEvent_select(r) ==
  /\ rq[r].pc = "de_select"
  /\ LET q == rq[r]
         event == getEventById(View(q.trx), q.arg.id)
     IN IF IsSome(event)
        THEN /\ rq' = [rq EXCEPT ![r] =
                  [q EXCEPT !.pc = "de_delete", !.loc = [event |-> event[1]]]]
             /\ UNCHANGED <<events, audit_logs>>
        ELSE Throws(r, "not found")
  /\ UNCHANGED <<templates, nextId, now, users, customClaims, nops, origin>>

\* DELETE FROM events WHERE id = eventId: waits for the row's lock
deleteEvent_del(r) ==
  /\ rq[r].pc = "de_delete"
  /\ ~LockedAgainst(r, rq[r].arg.id)
  /\ LET q == rq[r]
     IN rq' = [rq EXCEPT ![r] =
          [q EXCEPT !.pc = "de_audit",
                    !.trx = trxDelete(@, {e \in View(q.trx) : e.id = q.arg.id})]]
  /\ UNCHANGED <<events, audit_logs, templates, nextId, now, users, customClaims, nops, origin>>

deleteEvent_logAction(r) ==
  /\ rq[r].pc = "de_audit"
  /\ LET q == rq[r]
     IN rq' = [rq EXCEPT ![r] =
          [q EXCEPT !.pc = "de_commit",
                    !.trx = trxLog(@, logEntry("events", q.arg.id, "DELETE", q.uid,
                                               Some(q.loc.event), None))]]
  /\ UNCHANGED <<events, audit_logs, templates, nextId, now, users, customClaims, nops, origin>>

deleteEvent_commit(r) ==
  /\ rq[r].pc = "de_commit"
  /\ LET q == rq[r]
     IN /\ events' = CommitEvents(q.trx)
        /\ audit_logs' = CommitAudit(q.trx)
        /\ rq' = [rq EXCEPT ![r] = Respond(q, 200, q.loc.event)]
  /\ UNCHANGED <<templates, nextId, now, users, customClaims, nops, origin>>

----------------------------------------------------------------------------
(* POST /api/planning/duplicate and EventService.duplicateWeekEvents *)

\* a / b truncated toward zero, as moment's diff does
Trunc(a, b) == IF a >= 0 THEN a \div b ELSE -((-a) \div b)

\* the difference in days rounded away from zero instead of truncated
daysDiff_roundedUp(targetWeek, sourceWeek) ==
  IF (targetWeek - sourceWeek) % DayHours = 0
  THEN Trunc(targetWeek - sourceWeek, DayHours)
  ELSE IF targetWeek >= sourceWeek
    THEN Trunc(targetWeek - sourceWeek, DayHours) + 1
    ELSE Trunc(targetWeek - sourceWeek, DayHours) - 1

\* moment(targetWeek).diff(moment(sourceWeek), 'days')
daysDiff(targetWeek, sourceWeek) == Trunc(targetWeek - sourceWeek, DayHours)

\* moment(t).add(days, 'days')
AddDays(t, days) == t + days * DayHours

\* the columns of the copy of sourceEvent
duplicateOf(sourceEvent, sourceWeek, targetWeek, createdBy) ==
  [title |-> sourceEvent.title,
   start_time |-> AddDays(sourceEvent.start_time, daysDiff(targetWeek, sourceWeek)),
   end_time |-> AddDays(sourceEvent.end_time, daysDiff(targetWeek, sourceWeek)),
   team |-> sourceEvent.team,
   animator |-> sourceEvent.animator,
   color |-> sourceEvent.color,
   description |-> sourceEvent.description,
   metadata |-> sourceEvent.metadata,
   created_by |-> createdBy,
   created_at |-> now,
   updated_at |-> now]

\* arg: [source_week, target_week, team, overwrite]
StartDuplicate(r, uid, arg) ==
  /\ CanStart(r)
  /\ nops' = nops + 1
  /\ rq' = [rq EXCEPT ![r] =
       IF ~requireWritePermissions(uid) THEN Refused("duplicate", uid, arg, 403)
       ELSE IF arg.team \notin ValidTeams THEN Refused("duplicate", uid, arg, 400)
       ELSE IF requireTeamAccess(uid, arg.team) # 0
         THEN Refused("duplicate", uid, arg, requireTeamAccess(uid, arg.team))
       ELSE Accepted("duplicate", uid, arg, "dw_source", <<>>)]
  /\ UNCHANGED <<events, audit_logs, templates, nextId, now, users, customClaims, origin>>

\* this.getWeekEvents(sourceWeek, team), read through db, not through trx
duplicateWeekEvents_source(r) ==
  /\ rq[r].pc = "dw_source"
  /\ LET q == rq[r]
     IN \E sourceEvents \in OrderByStart(getWeekEvents(events, q.arg.source_week, q.arg.team)) :
          IF Len(sourceEvents) = 0
          THEN Throws(r, "no source event")
          ELSE /\ rq' = [rq EXCEPT ![r] =
                    [q EXCEPT !.pc = IF q.arg.overwrite THEN "dw_existing" ELSE "dw_insert",
                              !.loc = [sourceEvents |-> sourceEvents, k |-> 1,
                                       duplicatedEvents |-> <<>>]]]
               /\ UNCHANGED <<events, audit_logs>>
  /\ UNCHANGED <<templates, nextId, now, users, customClaims, nops, origin>>

\* existingEvents = await trx('events').where('team', team).whereBetween(...)
duplicateWeekEvents_existing(r) ==
  /\ rq[r].pc = "dw_existing"
  /\ LET q == rq[r]
     IN \E existingEvents \in Orders(getWeekEvents(View(q.trx), q.arg.target_week, q.arg.team)) :
          rq' = [rq EXCEPT ![r] =
            [q EXCEPT !.pc = IF Len(existingEvents) = 0 THEN "dw_delete" ELSE "dw_auditDelete",
                      !.loc = Merge(@, [existingEvents |-> existingEvents, j |-> 1])]]
  /\ UNCHANGED <<events, audit_logs, templates, nextId, now, users, customClaims, nops, origin>>

\* one turn of the loop over existingEvents: its logAction
duplicateWeekEvents_logDelete(r) ==
  /\ rq[r].pc = "dw_auditDelete"
  /\ LET q == rq[r]
         event == q.loc.existingEvents[q.loc.j]
     IN rq' = [rq EXCEPT ![r] =
          [q EXCEPT !.pc = IF q.loc.j = Len(q.loc.existingEvents)
                             THEN "dw_delete" ELSE "dw_auditDelete",
                    !.trx = trxLog(@, logEntry("events", event.id, "DELETE", q.uid,
                                               Some(event), None)),
                    !.loc = [@ EXCEPT !.j = @ + 1]]]
  /\ UNCHANGED <<events, audit_logs, templates, nextId, now, users, customClaims, nops, origin>>

\* await trx('events').where('team', team).whereBetween(...).del(): the rows of
\* the window as this statement sees them; waits for their locks
duplicateWeekEvents_del(r) ==
  /\ rq[r].pc = "dw_delete"
  /\ LET q == rq[r]
         rows == getWeekEvents(View(q.trx), q.arg.target_week, q.arg.team)
     IN /\ \A e \in rows : ~LockedAgainst(r, e.id)
        /\ rq' = [rq EXCEPT ![r] =
             [q EXCEPT !.pc = "dw_insert", !.trx = trxDelete(@, rows)]]
  /\ UNCHANGED <<events, audit_logs, templates, nextId, now, users, customClaims, nops, origin>>

\* one turn of the loop over sourceEvents: the insert
duplicateWeekEvents_insert(r) ==
  /\ rq[r].pc = "dw_insert"
  /\ LET q == rq[r]
         newEvent == duplicateOf(q.loc.sourceEvents[q.loc.k], q.arg.source_week,
                                 q.arg.target_week, q.uid)
         insertedEvent == InsertedRow(newEvent, nextId)
     IN rq' = [rq EXCEPT ![r] =
          [q EXCEPT !.pc = "dw_auditInsert", !.trx = trxInsert(@, insertedEvent),
                    !.loc = Merge(@, [insertedEvent |-> insertedEvent])]]
  /\ nextId' = nextId + 1
  /\ UNCHANGED <<events, audit_logs, templates, now, users, customClaims, nops, origin>>

\* the same turn: its logAction and duplicatedEvents.push
duplicateWeekEvents_logInsert(r) ==
  /\ rq[r].pc = "dw_auditInsert"
  /\ LET q == rq[r]
         insertedEvent == q.loc.insertedEvent
     IN rq' = [rq EXCEPT ![r] =
          [q EXCEPT !.pc = IF q.loc.k = Len(q.loc.sourceEvents)
                             THEN "dw_commit" ELSE "dw_insert",
                    !.trx = trxLog(@, logEntry("events", insertedEvent.id, "CREATE", q.uid,
                                               None, Some(insertedEvent))),
                    !.loc = [@ EXCEPT !.k = @ + 1,
                                      !.duplicatedEvents = Append(@, insertedEvent)]]]
  /\ UNCHANGED <<events, audit_logs, templates, nextId, now, users, customClaims, nops, origin>>

duplicateWeekEvents_commit(r) ==
  /\ rq[r].pc = "dw_commit"
  /\ LET q == rq[r]
     IN /\ events' = CommitEvents(q.trx)
        /\ audit_logs' = CommitAudit(q.trx)
        /\ origin' = Written(q.trx.ins, "duplicate", FALSE, {})
        /\ rq' = [rq EXCEPT ![r] = Respond(q, 200, q.loc.duplicatedEvents)]
  /\ UNCHANGED <<templates, nextId, now, users, customClaims, nops>>

----------------------------------------------------------------------------
(* POST /api/planning/templates and POST /api/planning/templates/:id/apply *)

\* JavaScript values of a request body that are not plain records: an
\* array, and a string that holds the JSON text of a value
Array(items) == [kind |-> "array", items |-> items]
String(text) == [kind |-> "string", text |-> text]

\* JSON.stringify(v): the JSON text of a value without dates
JSONtext(v) == <<"json", v>>

\* the value a JSON text denotes
JSONvalue(text) == text[2]

\* a json column as the pg client returns it: node-postgres parses the
\* column's text, the application receives the value
pgJson(column) == JSONvalue(column)

\* JSON.parse(v): v is converted to a string first; the string form of an
\* array of objects ("[object Object],...") is no JSON text, so only a
\* string that holds a JSON text is parsed; None is a SyntaxError
JSONparse(v) ==
  IF "kind" \in DOMAIN v /\ v.kind = "string" THEN Some(JSONvalue(v.text)) ELSE None

\* arg: [name, team, template_events]
createTemplate(r, uid, arg) ==
  /\ CanStart(r)
  /\ nops' = nops + 1
  /\ LET refusal ==
           IF ~requireWritePermissions(uid) THEN 403
           ELSE IF users[uid].role # "admin" /\ arg.team \notin users[uid].teams THEN 403
           ELSE 0
         newTemplate ==
           [id |-> nextId, name |-> arg.name, description |-> NULL, team |-> arg.team,
            template_events |-> JSONtext(arg.template_events), created_by |-> uid,
            active |-> TRUE, created_at |-> now, updated_at |-> now]
     IN IF refusal # 0
        THEN /\ rq' = [rq EXCEPT ![r] = Refused("template", uid, arg, refusal)]
             /\ UNCHANGED <<templates, nextId>>
        ELSE /\ rq' = [rq EXCEPT ![r] =
                  Respond(Accepted("template", uid, arg, "insert", <<>>), 201, newTemplate)]
             /\ templates' = templates \cup {newTemplate}
             /\ nextId' = nextId + 1
  /\ UNCHANGED <<events, audit_logs, now, users, customClaims, origin>>

\* arg: [id, target_week, overwrite]
StartApply(r, uid, arg) ==
  /\ CanStart(r)
  /\ nops' = nops + 1
  /\ rq' = [rq EXCEPT ![r] =
       IF ~requireWritePermissions(uid) THEN Refused("apply", uid, arg, 403)
       ELSE Accepted("apply", uid, arg, "tp_load", <<>>)]
  /\ UNCHANGED <<events, audit_logs, templates, nextId, now, users, customClaims, origin>>

\* a lookup that also returns a row whose active flag is false
TemplateFound_inactiveToo(id) == {t \in templates : t.id = id}

\* db('planning_templates').where('id', req.params.id).where('active', true)
TemplateFound(id) == {t \in templates : t.id = id /\ t.active}

\* the template is loaded, the user's access to its team checked, its
\* template_events parsed
applyTemplate_load(r) ==
  /\ rq[r].pc = "tp_load"
  /\ LET q == rq[r]
         found == TemplateFound(q.arg.id)
         template == CHOOSE t \in found : TRUE
         parsed == JSONparse(pgJson(template.template_events))
         templateEvents == parsed[1].items
     IN rq' = [rq EXCEPT ![r] =
          IF found = {} THEN Respond(q, 404, <<>>)
          ELSE IF users[q.uid].role # "admin" /\ template.team \notin users[q.uid].teams
            THEN Respond(q, 403, <<>>)
          ELSE IF ~IsSome(parsed)
            THEN Respond(q, 500, ServerError("SyntaxError"))
          ELSE IF q.arg.overwrite
            THEN [q EXCEPT !.pc = "tp_delete",
                           !.loc = [template |-> template, templateEvents |-> templateEvents,
                                    k |-> 1, createdEvents |-> <<>>]]
          ELSE IF Len(templateEvents) = 0
            THEN Respond(q, 200, [template_name |-> template.name, events |-> <<>>])
          ELSE [q EXCEPT !.pc = "tp_insert",
                         !.loc = [template |-> template, templateEvents |-> templateEvents,
                                  k |-> 1, createdEvents |-> <<>>]]]
  /\ UNCHANGED <<events, audit_logs, templates, nextId, now, users, customClaims, nops, origin>>

\* await db('events').where('team', template.team).whereBetween(...).del(),
\* outside any transaction
applyTemplate_del(r) ==
  /\ rq[r].pc = "tp_delete"
  /\ LET q == rq[r]
         rows == getWeekEvents(events, q.arg.target_week, q.loc.template.team)
     IN /\ \A e \in rows : ~LockedAgainst(r, e.id)
        /\ events' = events \ rows
        /\ rq' = [rq EXCEPT ![r] =
             IF Len(q.loc.templateEvents) = 0
             THEN Respond(q, 200, [template_name |-> q.loc.template.name, events |-> <<>>])
             ELSE [q EXCEPT !.pc = "tp_insert"]]
  /\ UNCHANGED <<audit_logs, templates, nextId, now, users, customClaims, nops, origin>>

\* weekStart with setHours(hour, 0, 0, 0) and setDate(getDate() + day_offset)
TemplateInstant(target_week, hour, day_offset) ==
  (target_week \div DayHours) * DayHours + hour + day_offset * DayHours

\* an absent key of a template event is inserted as the column's default
Get(rec, k) == IF k \in DOMAIN rec THEN rec[k] ELSE NULL

\* if (templateEvent.day_offset): an absent offset moves nothing
DayOffset(templateEvent) ==
  IF Has(templateEvent, "day_offset") THEN templateEvent.day_offset ELSE 0

\* the columns of the event of templateEvent
templateEventOf(templateEvent, template, target_week, uid) ==
  [title |-> templateEvent.title,
   start_time |-> TemplateInstant(target_week, templateEvent.start_hour,
                                  DayOffset(templateEvent)),
   end_time |-> TemplateInstant(target_week, templateEvent.end_hour,
                                DayOffset(templateEvent)),
   team |-> template.team,
   animator |-> Get(templateEvent, "animator"),
   color |-> Get(templateEvent, "color"),
   description |-> Get(templateEvent, "description"),
   metadata |-> IF Has(templateEvent, "metadata") THEN templateEvent.metadata ELSE EmptyJson,
   created_by |-> uid,
   created_at |-> now,
   updated_at |-> now]

\* one turn of the loop over templateEvents: await db('events').insert(event),
\* outside any transaction
applyTemplate_insert(r) ==
  /\ rq[r].pc = "tp_insert"
  /\ LET q == rq[r]
         event == templateEventOf(q.loc.templateEvents[q.loc.k], q.loc.template,
                                  q.arg.target_week, q.uid)
         createdEvent == InsertedRow(event, nextId)
         createdEvents == Append(q.loc.createdEvents, createdEvent)
     IN /\ events' = events \cup {createdEvent}
        /\ origin' = Written({createdEvent}, "apply", FALSE, {})
        /\ rq' = [rq EXCEPT ![r] =
             IF q.loc.k = Len(q.loc.templateEvents)
             THEN Respond(q, 200, [template_name |-> q.loc.template.name,
                                   events |-> createdEvents])
             ELSE [q EXCEPT !.loc = [@ EXCEPT !.k = @ + 1,
                                              !.createdEvents = createdEvents]]]
  /\ nextId' = nextId + 1
  /\ UNCHANGED <<audit_logs, templates, now, users, customClaims, nops>>

----------------------------------------------------------------------------
(* POST /api/planning/bulk-create *)

\* arg: [events], a sequence of event bodies
StartBulk(r, uid, arg) ==
  /\ CanStart(r)
  /\ nops' = nops + 1
  /\ rq' = [rq EXCEPT ![r] =
       IF ~requireWritePermissions(uid) THEN Refused("bulk", uid, arg, 403)
       ELSE IF Len(arg.events) = 0 \/ Len(arg.events) > MaxBulk
         THEN Refused("bulk", uid, arg, 400)
       ELSE BulkLoop(Accepted("bulk", uid, arg, "loop", <<>>), 1, <<>>, <<>>)]
  /\ UNCHANGED <<events, audit_logs, templates, nextId, now, users, customClaims, origin>>

----------------------------------------------------------------------------
(* POST /api/events/conflicts/check *)

\* arg: [start_time, end_time, team, exclude_event_id]
conflictsCheck(r, uid, arg) ==
  /\ CanStart(r)
  /\ nops' = nops + 1
  /\ LET conflicts == checkEventConflicts(events, arg.start_time, arg.end_time, arg.team,
                                          arg.exclude_event_id)
     IN rq' = [rq EXCEPT ![r] =
          Respond(Accepted("check", uid, arg, "query", <<>>), 200,
                  [has_conflicts |-> conflicts # {}, conflicts |-> ConflictList(conflicts)])]
  /\ UNCHANGED <<events, audit_logs, templates, nextId, now, users, customClaims, origin>>

----------------------------------------------------------------------------
(* AuditService.getRecordHistory and calculateChanges *)

\* the values of a parsed snapshot: null, a string, or an object, whose
\* entries [key, value] are in the order of Object.entries; Undefined is what
\* reading a missing key gives
Null == [kind |-> "null"]
Undefined == [kind |-> "undefined"]
Object(entries) == [kind |-> "object", entries |-> entries]

\* object[key]
Member(object, key) ==
  IF \E i \in 1..Len(object.entries) : object.entries[i].key = key
  THEN object.entries[CHOOSE i \in 1..Len(object.entries) : object.entries[i].key = key].value
  ELSE Undefined

\* JSON.stringify(v): the text, members in key order and members of
\* undefined value left out; None is undefined, the result for undefined
RECURSIVE JSONstringifyValue(_)
RECURSIVE JSONstringifyMembers(_, _)
JSONstringifyMembers(entries, first) ==
  IF entries = <<>> THEN ""
  ELSE LET text == JSONstringifyValue(Head(entries).value)
       IN IF ~IsSome(text) THEN JSONstringifyMembers(Tail(entries), first)
          ELSE (IF first THEN "" ELSE ",") \o "\"" \o Head(entries).key \o "\":" \o text[1]
               \o JSONstringifyMembers(Tail(entries), FALSE)

JSONstringifyValue(v) ==
  IF v.kind = "undefined" THEN None
  ELSE IF v.kind = "null" THEN Some("null")
  ELSE IF v.kind = "string" THEN Some("\"" \o v.text \o "\"")
  ELSE Some("{" \o JSONstringifyMembers(v.entries, TRUE) \o "}")

RECURSIVE calculateChangesFrom(_, _, _)
calculateChangesFrom(oldValues, newValues, i) ==
  IF i > Len(newValues.entries) THEN <<>>
  ELSE LET key == newValues.entries[i].key
           newValue == newValues.entries[i].value
           oldValue == Member(oldValues, key)
       IN (IF JSONstringifyValue(oldValue) # JSONstringifyValue(newValue)
           THEN <<[field |-> key, old_value |-> oldValue, new_value |-> newValue]>>
           ELSE <<>>)
          \o calculateChangesFrom(oldValues, newValues, i + 1)

calculateChanges(oldValues, newValues) == calculateChangesFrom(oldValues, newValues, 1)

\* ORDER BY created_at ASC over the audit rows at the indices idx: the
\* orders in which the query can return them
OrderByCreated(idx) ==
  {s \in Orders(idx) :
     \A i, j \in 1..Len(s) : i < j => audit_logs[s[i]].created_at <= audit_logs[s[j]].created_at}

\* log.old_values ? JSON.parse(log.old_values) : null; audit_logs holds the
\* json columns as the driver returns them, parsed, with dates as ISO
\* strings; None is a SyntaxError
parseValues(column) ==
  IF IsSome(column) THEN JSONparse(column[1]) ELSE Some(Null)

\* what the map callback returns for one audit row
parsedLog(log) ==
  LET old_values == parseValues(log.old_values)[1]
      new_values == parseValues(log.new_values)[1]
      parsed == [log EXCEPT !.old_values = old_values, !.new_values = new_values]
  IN IF log.action = "UPDATE" /\ old_values # Null /\ new_values # Null
     THEN parsed @@ [changes |-> calculateChanges(old_values, new_values)]
     ELSE parsed

\* a call of the service function; a rejected promise is recorded as 500
getRecordHistory(r, tableName, recordId) ==
  /\ CanStart(r)
  /\ nops' = nops + 1
  /\ \E order \in OrderByCreated({i \in 1..Len(audit_logs) :
                                    /\ audit_logs[i].table_name = tableName
                                    /\ audit_logs[i].record_id = recordId}) :
       LET logs == [k \in 1..Len(order) |-> audit_logs[order[k]]]
           q == Accepted("history", NULL, [table_name |-> tableName, record_id |-> recordId],
                         "select", <<>>)
       IN rq' = [rq EXCEPT ![r] =
            IF \E k \in 1..Len(logs) :
                 ~IsSome(parseValues(logs[k].old_values)) \/ ~IsSome(parseValues(logs[k].new_values))
            THEN Respond(q, 500, ServerError("SyntaxError"))
            ELSE Respond(q, 200, [k \in 1..Len(logs) |-> parsedLog(logs[k])])]
  /\ UNCHANGED <<events, audit_logs, templates, nextId, now, users, customClaims, origin>>

\* a call calculateChanges(oldValues, newValues) waiting in slot r is run
calculateChanges_call(r) ==
  /\ rq[r].pc = "cc_call"
  /\ rq' = [rq EXCEPT ![r] =
       Respond(@, 200, calculateChanges(@.arg.oldValues, @.arg.newValues))]
  /\ UNCHANGED <<events, audit_logs, templates, nextId, now, users, customClaims, nops, origin>>

----------------------------------------------------------------------------
(* routes/users.js and UserService: role change and deletion of a user *)

requireAdminPermissions(uid) == requireRole({"admin"}, uid)

\* the row of user uid
UserRow(uid) == [uid |-> uid, role |-> users[uid].role, teams |-> users[uid].teams]

\* if (updateData.role && updateData.role !== oldUser.role)
\*   await setUserRole(uid, updateData.role): the claims after it
setUserRole(oldUser, uid, role) ==
  IF role # oldUser.role
  THEN [u \in DOMAIN customClaims \cup {uid} |-> IF u = uid THEN role ELSE customClaims[u]]
  ELSE customClaims

\* PUT /api/users/:uid with a body that names a role and no teams:
\* validate('user') adds teams: [], updateUser writes both in one
\* transaction with its audit row
updateUser(r, uid, target, role) ==
  /\ CanStart(r)
  /\ nops' = nops + 1
  /\ LET arg == [uid |-> target, role |-> role]
         q == Accepted("user_update", uid, arg, "uu_select", <<>>)
         user == [role |-> role, teams |-> {}]
     IN IF ~requireAdminPermissions(uid)
        THEN /\ rq' = [rq EXCEPT ![r] = Refused("user_update", uid, arg, 403)]
             /\ UNCHANGED <<users, customClaims, audit_logs>>
        ELSE IF target \notin DOMAIN users
        THEN /\ rq' = [rq EXCEPT ![r] = Respond(q, 500, ServerError("user not found"))]
             /\ UNCHANGED <<users, customClaims, audit_logs>>
        ELSE /\ users' = [users EXCEPT ![target] = user]
             /\ customClaims' = setUserRole(users[target], target, role)
             /\ audit_logs' =
                  Append(audit_logs,
                         logEntry("users", target, "UPDATE", uid, Some(UserRow(target)),
                                  Some([uid |-> target, role |-> role, teams |-> {}])))
             /\ rq' = [rq EXCEPT ![r] = Respond(q, 200, Some(user))]
  /\ UNCHANGED <<events, templates, nextId, now, origin>>

\* the statements updateUser awaits, in order: the select of the old row,
\* the update, setUserRole, logAction, the commit
UpdateUserStatements == <<"uu_select", "uu_update", "uu_claim", "uu_audit", "uu_commit">>

\* the same request when the k-th statement updateUser awaits throws: the
\* transaction is rolled back and the route answers 500; the statements
\* before the k-th have run
updateUser_throws(r, uid, target, role, k) ==
  /\ CanStart(r)
  /\ nops' = nops + 1
  /\ requireAdminPermissions(uid)
  /\ target \in DOMAIN users
  /\ LET arg == [uid |-> target, role |-> role]
         q == Accepted("user_update", uid, arg, UpdateUserStatements[k], <<>>)
     IN rq' = [rq EXCEPT ![r] = Respond(q, 500, ServerError(StorageError(q.pc)))]
  /\ customClaims' = IF k > 3 THEN setUserRole(users[target], target, role) ELSE customClaims
  /\ UNCHANGED <<events, audit_logs, templates, nextId, now, users, origin>>

\* POST /api/users: validate('user') strips uid, which schemas.user does not
\* know, so the insert of createUser has no uid and violates the primary
\* key's NOT NULL; the transaction is rolled back before setUserRole
createUser(r, uid, role) ==
  /\ CanStart(r)
  /\ nops' = nops + 1
  /\ LET arg == [role |-> role]
         q == Accepted("user_create", uid, arg, "cu_insert", <<>>)
     IN rq' = [rq EXCEPT ![r] =
          IF ~requireAdminPermissions(uid) THEN Refused("user_create", uid, arg, 403)
          ELSE Respond(q, 500, ServerError("constraint violation"))]
  /\ UNCHANGED <<events, audit_logs, templates, nextId, now, users, customClaims, origin>>

\* DELETE /api/users/:uid and deleteUser, one transaction
deleteUser(r, uid, target) ==
  /\ CanStart(r)
  /\ nops' = nops + 1
  /\ LET arg == [uid |-> target]
         q == Accepted("user_delete", uid, arg, "du_select", <<>>)
         eventCount == Cardinality({e \in events : e.created_by = target})
     IN IF ~requireAdminPermissions(uid)
        THEN /\ rq' = [rq EXCEPT ![r] = Refused("user_delete", uid, arg, 403)]
             /\ UNCHANGED <<users, audit_logs>>
        ELSE IF target = uid
        THEN /\ rq' = [rq EXCEPT ![r] = Refused("user_delete", uid, arg, 400)]
             /\ UNCHANGED <<users, audit_logs>>
        ELSE IF target \notin DOMAIN users
        THEN /\ rq' = [rq EXCEPT ![r] = Respond(q, 500, ServerError("user not found"))]
             /\ UNCHANGED <<users, audit_logs>>
        ELSE IF eventCount > 0
        THEN /\ rq' = [rq EXCEPT ![r] = Respond(q, 500, ServerError("user has created events"))]
             /\ UNCHANGED <<users, audit_logs>>
        ELSE /\ users' = [u \in DOMAIN users \ {target} |-> users[u]]
             /\ audit_logs' =
                  Append(audit_logs,
                         logEntry("users", target, "DELETE", uid, Some(UserRow(target)), None))
             /\ rq' = [rq EXCEPT ![r] = Respond(q, 200, Some(users[target]))]
  /\ UNCHANGED <<events, templates, nextId, now, customClaims, origin>>

----------------------------------------------------------------------------
(* AuditService.cleanupOldLogs, and the clock *)

\* a cutoff test that also takes the rows created at the cutoff itself
IsOldLog_inclusive(log, retentionDays) == log.created_at <= now - retentionDays

\* where('created_at', '<', cutoffDate), cutoffDate being now less
\* retentionDays days
IsOldLog(log, retentionDays) == log.created_at < now - retentionDays

\* the audit rows cleanupOldLogs(retentionDays) deletes
OldLogs(retentionDays) ==
  {i \in 1..Len(audit_logs) : IsOldLog(audit_logs[i], retentionDays)}

cleanupOldLogs(r, retentionDays) ==
  /\ CanStart(r)
  /\ nops' = nops + 1
  /\ audit_logs' = SelectSeq(audit_logs, LAMBDA e : ~IsOldLog(e, retentionDays))
  /\ rq' = [rq EXCEPT ![r] =
       Respond(Accepted("cleanup", NULL, [retentionDays |-> retentionDays], "del", <<>>),
               200, Cardinality(OldLogs(retentionDays)))]
  /\ UNCHANGED <<events, templates, nextId, now, users, customClaims, origin>>

\* a day passes while no request is being served
Tick ==
  /\ now < MaxClock
  /\ \A r \in Slots : ~InFlight(r)
  /\ now' = now + 1
  /\ UNCHANGED <<events, audit_logs, templates, nextId, users, customClaims, rq, nops, origin>>

----------------------------------------------------------------------------
(* A storage failure: the statement the request of slot r awaits throws *)

InService(q) ==
  q.pc \in {"ce_insert", "ce_audit", "ce_commit",
            "ue_select", "ue_update", "ue_audit", "ue_commit",
            "de_select", "de_delete", "de_audit", "de_commit",
            "dw_source", "dw_existing", "dw_auditDelete", "dw_delete", "dw_insert",
            "dw_auditInsert", "dw_commit"}

StatementFails(r) ==
  /\ InFlight(r)
  /\ IF InService(rq[r])
     THEN Throws(r, StorageError(rq[r].pc))
     ELSE /\ rq' = [rq EXCEPT ![r] = Respond(@, 500, ServerError(StorageError(@.pc)))]
          /\ UNCHANGED <<events, audit_logs>>
  /\ UNCHANGED <<templates, nextId, now, users, customClaims, nops, origin>>

----------------------------------------------------------------------------
(* The requests the model draws *)

PlainPayload == [title |-> "A"]
FullPayload ==
  [title |-> "B", animator |-> "ann", color |-> "#aabbcc", description |-> "d",
   metadata |-> "m"]

EventBody(p, iv, team) ==
  Merge(p, [start_time |-> iv[1], end_time |-> iv[2], team |-> team])

\* [start, end) in hours, on Monday of week 0 and of week 1: back to back,
\* one inside the other, overlapping at either end, of no length; refused
\* ones: ending before the start, starting before opening
EventBodies ==
  {EventBody(PlainPayload, <<11, 12>>, "bar"),
   EventBody(FullPayload, <<10, 13>>, "bar"),
   EventBody(PlainPayload, <<12, 14>>, "bar"),
   EventBody(PlainPayload, <<10, 10>>, "bar"),
   EventBody(FullPayload, <<178, 179>>, "bar"),
   EventBody(PlainPayload, <<11, 12>>, "animation"),
   EventBody(PlainPayload, <<12, 11>>, "bar"),
   EventBody(PlainPayload, <<9, 10>>, "bar")}

\* an event of no length inside the hours of the others
PointBodies == {EventBody(PlainPayload, <<11, 11>>, "bar")}

InputTeams == {"bar", "animation"}

\* the event ids a request can name: those of the stored events and one of none
EventIds == Ids(events) \cup {nextId}

\* the template ids a request can name: those of the templates and one of none
TemplateIds == Ids(templates) \cup {nextId}

WeekStarts == {0, 180}

DuplicateArgs ==
  {[source_week |-> w[1], target_week |-> w[2], team |-> team, overwrite |-> o] :
     w \in {<<0, 168>>, <<0, 180>>, <<168, 0>>, <<0, 0>>}, team \in {"bar"},
     o \in BOOLEAN}
  \cup {[source_week |-> 0, target_week |-> 168, team |-> "animation", overwrite |-> FALSE]}

\* the two template events of the templates
TemplateEvents ==
  <<[title |-> "T1", start_hour |-> 10, end_hour |-> 11, day_offset |-> 0],
    [title |-> "T2", start_hour |-> 14, end_hour |-> 16, day_offset |-> 2,
     animator |-> "ann"]>>

\* template_events sent as an array, and as a string that holds the JSON
\* text of the array
TemplateArgs ==
  {[name |-> "T", team |-> "bar", template_events |-> te] :
     te \in {Array(TemplateEvents), String(JSONtext(Array(TemplateEvents)))}}

ApplyArgs ==
  {[id |-> id, target_week |-> t, overwrite |-> o] :
     id \in TemplateIds, t \in WeekStarts, o \in BOOLEAN}

BulkArgs ==
  {[events |-> <<EventBody(PlainPayload, <<11, 12>>, "bar")>>],
   [events |-> <<EventBody(PlainPayload, <<11, 12>>, "bar"),
                 EventBody(FullPayload, <<10, 13>>, "bar")>>],
   [events |-> <<EventBody(PlainPayload, <<12, 11>>, "bar"),
                 EventBody(PlainPayload, <<11, 12>>, "animation")>>],
   [events |-> <<[title |-> "A", team |-> "bar"],
                 EventBody(PlainPayload, <<12, 14>>, "bar")>>]}

CheckArgs ==
  {[start_time |-> iv[1], end_time |-> iv[2], team |-> team, exclude_event_id |-> x] :
     iv \in {<<11, 12>>, <<10, 10>>, <<12, 14>>}, team \in {"bar"}, x \in {None} \cup {Some(i) : i \in EventIds}}

RetentionDays == {0, 1}

\* the snapshots calculateChanges is called with: a title, a metadata
\* object, an optional colour, the first two in either key order
Entry(key, value) == [key |-> key, value |-> value]

MetadataValues ==
  {Object(<<Entry("a", String("1")), Entry("b", String("2"))>>),
   Object(<<Entry("b", String("2")), Entry("a", String("1"))>>),
   Object(<<Entry("a", String("1"))>>)}

Snapshots ==
  {Object(<<>>)} \cup
  {Object(head \o tail) :
     head \in UNION {{<<Entry("title", t), Entry("metadata", m)>>,
                      <<Entry("metadata", m), Entry("title", t)>>} :
                       t \in {String("A"), String("B")}, m \in MetadataValues},
     tail \in {<<>>, <<Entry("color", Null)>>, <<Entry("color", String("#aabbcc"))>>}}

\* the roles PUT /api/users/:uid is drawn with, and the uids it and
\* DELETE /api/users/:uid name
NewRoles == {"staff", "admin"}

UserIds == DOMAIN InitialUsers

\* the requests drawn when requests are served concurrently
RacingBodies ==
  {EventBody(PlainPayload, <<11, 12>>, "bar"),
   EventBody(FullPayload, <<10, 13>>, "bar"),
   EventBody(PlainPayload, <<179, 180>>, "bar")}

RacingDuplicateArgs ==
  {[source_week |-> 0, target_week |-> 168, team |-> "bar", overwrite |-> o] :
     o \in BOOLEAN}

\* the users who send the requests of the planning routes
Planners == {"admin1"}

\* the bodies of the event requests any user sends
OwnerBodies == RacingBodies \cup {EventBody(PlainPayload, <<11, 12>>, "animation")}

----------------------------------------------------------------------------
(* Specifications *)

Init ==
  /\ events = {}
  /\ audit_logs = <<>>
  /\ templates = {}
  /\ nextId = 1
  /\ now = 0
  /\ users = InitialUsers
  /\ customClaims = InitialClaims
  /\ rq = [r \in Slots |-> IdleRq]
  /\ nops = 0
  /\ origin = <<>>

\* the steps of the event routes in slot r
EventSteps(r, actors, bodies) ==
  \/ \E uid \in actors, body \in bodies : StartCreate(r, uid, body)
  \/ \E uid \in Planners, id \in EventIds, body \in bodies : StartUpdate(r, uid, id, body)
  \/ validateEventConflicts(r)
  \/ requireEventOwnership(r)
  \/ createEvent_insert(r)
  \/ createEvent_logAction(r)
  \/ createEvent_commit(r)
  \/ updateEvent_select(r)
  \/ updateEvent_update(r)
  \/ updateEvent_logAction(r)
  \/ updateEvent_commit(r)
  \/ StatementFails(r)

DeleteSteps(r) ==
  \/ \E uid \in Planners, id \in EventIds : StartDelete(r, uid, id)
  \/ deleteEvent_select(r)
  \/ deleteEvent_del(r)
  \/ deleteEvent_logAction(r)
  \/ deleteEvent_commit(r)

DuplicateSteps(r, args) ==
  \/ \E uid \in Planners, arg \in args : StartDuplicate(r, uid, arg)
  \/ duplicateWeekEvents_source(r)
  \/ duplicateWeekEvents_existing(r)
  \/ duplicateWeekEvents_logDelete(r)
  \/ duplicateWeekEvents_del(r)
  \/ duplicateWeekEvents_insert(r)
  \/ duplicateWeekEvents_logInsert(r)
  \/ duplicateWeekEvents_commit(r)

PlanningSteps(r) ==
  \/ \E uid \in Planners, arg \in TemplateArgs : createTemplate(r, uid, arg)
  \/ \E uid \in Planners, arg \in ApplyArgs : StartApply(r, uid, arg)
  \/ applyTemplate_load(r)
  \/ applyTemplate_del(r)
  \/ applyTemplate_insert(r)
  \/ \E uid \in Planners, arg \in BulkArgs : StartBulk(r, uid, arg)

OtherSteps(r) ==
  \/ \E uid \in Planners, arg \in CheckArgs : conflictsCheck(r, uid, arg)
  \/ \E d \in RetentionDays : cleanupOldLogs(r, d)

AuditSteps(r) ==
  \E id \in EventIds : getRecordHistory(r, "events", id)

\* create and update requests, one after the other
NextEvents == EventSteps(1, Actors, EventBodies \cup PointBodies)

SpecEvents == Init /\ [][NextEvents]_vars

\* all requests, one after the other
NextSeq ==
  \/ EventSteps(1, Actors, EventBodies)
  \/ DeleteSteps(1)
  \/ DuplicateSteps(1, DuplicateArgs)
  \/ PlanningSteps(1)
  \/ OtherSteps(1)
  \/ Tick

SpecSeq == Init /\ [][NextSeq]_vars

\* the event routes and the week duplication, served concurrently
Next ==
  \E r \in Slots :
    \/ EventSteps(r, Planners, RacingBodies)
    \/ DeleteSteps(r)
    \/ DuplicateSteps(r, RacingDuplicateArgs)
    \/ AuditSteps(r)

Spec == Init /\ [][Next]_vars

\* the event routes and the administration of users, one request after the
\* other, each sent by a user who has a row
UserSteps(r) ==
  \/ \E uid \in Actors, target \in UserIds, role \in NewRoles : updateUser(r, uid, target, role)
  \/ \E uid \in Actors, target \in UserIds : deleteUser(r, uid, target)

OwnerSteps(r, bodies) ==
  \/ \E uid \in Actors, body \in bodies : StartCreate(r, uid, body)
  \/ \E uid \in Actors, id \in EventIds, body \in bodies : StartUpdate(r, uid, id, body)
  \/ \E uid \in Actors, id \in EventIds : StartDelete(r, uid, id)
  \/ validateEventConflicts(r)
  \/ requireEventOwnership(r)
  \/ createEvent_insert(r)
  \/ createEvent_logAction(r)
  \/ createEvent_commit(r)
  \/ updateEvent_select(r)
  \/ updateEvent_update(r)
  \/ updateEvent_logAction(r)
  \/ updateEvent_commit(r)
  \/ deleteEvent_select(r)
  \/ deleteEvent_del(r)
  \/ deleteEvent_logAction(r)
  \/ deleteEvent_commit(r)

NextUsers ==
  \/ OwnerSteps(1, OwnerBodies)
  \/ UserSteps(1)

SpecUsers == Init /\ [][NextUsers]_vars

\* calculateChanges on every pair of snapshots
InitChanges ==
  /\ events = {}
  /\ audit_logs = <<>>
  /\ templates = {}
  /\ nextId = 1
  /\ now = 0
  /\ users = InitialUsers
  /\ customClaims = InitialClaims
  /\ nops = 0
  /\ origin = <<>>
  /\ \E oldValues, newValues \in Snapshots :
       rq = [r \in Slots |->
               IF r = 1
               THEN Accepted("changes", NULL,
                             [oldValues |-> oldValues, newValues |-> newValues], "cc_call", <<>>)
               ELSE IdleRq]

NextChanges == calculateChanges_call(1)

SpecChanges == InitChanges /\ [][NextChanges]_vars

\* the planning routes on a database that holds a template whose active
\* flag was cleared by hand: no route clears it
InactiveTemplate ==
  [id |-> 1, name |-> "old", description |-> NULL, team |-> "bar",
   template_events |-> JSONtext(Array(TemplateEvents)), created_by |-> "admin1",
   active |-> FALSE, created_at |-> 0, updated_at |-> 0]

InitTemplates ==
  /\ events = {}
  /\ audit_logs = <<>>
  /\ templates = {InactiveTemplate}
  /\ nextId = InactiveTemplate.id + 1
  /\ now = 0
  /\ users = InitialUsers
  /\ customClaims = InitialClaims
  /\ rq = [r \in Slots |-> IdleRq]
  /\ nops = 0
  /\ origin = <<>>

NextTemplates ==
  \/ EventSteps(1, Planners, RacingBodies)
  \/ PlanningSteps(1)

SpecTemplates == InitTemplates /\ [][NextTemplates]_vars

----------------------------------------------------------------------------
(* Properties *)

\* the intervals [start_time, end_time) of a and b overlap
Overlap(a, b) == a.start_time < b.end_time /\ b.start_time < a.end_time

\* sequence s is an initial part of sequence t
IsPrefix(s, t) == Len(s) <= Len(t) /\ SubSeq(t, 1, Len(s)) = s

\* the audit rows a step appends
Appended ==
  IF IsPrefix(audit_logs, audit_logs')
  THEN SubSeq(audit_logs', Len(audit_logs) + 1, Len(audit_logs'))
  ELSE <<>>

\* the request of slot r is answered by this step
Answers(r, status) ==
  InFlight(r) /\ rq'[r].pc = "done" /\ rq'[r].status = status

\* C1: when create and update requests are served one after the other from
\* an empty table, no two stored events of one team overlap.
C1_NoStoredOverlap ==
  \A a, b \in events : (a.id # b.id /\ a.team = b.team) => ~Overlap(a, b)

\* two events of one team are stored back to back, one of them moved there
\* by an update
C1_Witness ==
  \E a, b \in events :
    /\ a.id # b.id
    /\ a.team = b.team
    /\ a.end_time = b.start_time
    /\ origin[a.id].op = "update"

\* C2: every row that any mutating operation (create, update, week
\* duplication, template application, bulk create) inserts or moves overlaps
\* no other stored event of its team.
C2_EveryWriteConflictFree ==
  [][\A e \in events' \ events :
       \A f \in events' : (f.id # e.id /\ f.team = e.team) => ~Overlap(e, f)]_vars

\* C3: the conflicts that checkEventConflicts reports for [start, end) and a
\* team are exactly the stored events of the team with start < their end and
\* their start < end, intervals with start = end included.
C3_ConflictsAreOverlaps ==
  \A r \in Slots :
    (/\ rq[r].op = "check"
     /\ rq[r].pc = "done"
     /\ rq[r].status = 200
     /\ ~IsSome(rq[r].arg.exclude_event_id))
    => rq[r].out.conflicts =
         ConflictList({e \in events :
                         /\ e.team = rq[r].arg.team
                         /\ rq[r].arg.start_time < e.end_time
                         /\ e.start_time < rq[r].arg.end_time})

\* C4: in any interleaving, when the audit insert of createEvent, updateEvent
\* or deleteEvent fails, the request's transaction is discarded and the
\* events and the audit log stay as they were.
C4_AuditFailureRollsBack ==
  [][\A r \in Slots :
       (/\ rq[r].op \in {"create", "update", "delete"}
        /\ rq[r].pc \in {"ce_audit", "ue_audit", "de_audit"}
        /\ Answers(r, 500))
       => /\ events' = events
          /\ audit_logs' = audit_logs
          /\ rq'[r].trx = EmptyTrx]_vars

\* a create request has failed at its audit insert, after its row was inserted
C4_Witness ==
  \E r \in Slots :
    /\ rq[r].op = "create"
    /\ rq[r].pc = "done"
    /\ rq[r].status = 500
    /\ rq[r].out.message = StorageError("ce_audit")
    /\ nextId > 1

\* the row of id `id` among rows
RowOf(rows, id) == CHOOSE e \in rows : e.id = id

\* the number of appended audit rows of action `action` for record `id`
Logged(action, id) ==
  Cardinality({i \in 1..Len(Appended) :
                 Appended[i].action = action /\ Appended[i].record_id = id})

\* the ids of the events a step changes in place
Modified ==
  {id \in Ids(events) \cap Ids(events') : RowOf(events, id) # RowOf(events', id)}

C6_OverlapOnlyByRace ==
  \A a, b \in events :
    (/\ a.id # b.id
     /\ a.team = b.team
     /\ Overlap(a, b)
     /\ origin[a.id].checked
     /\ origin[b.id].checked)
    => (a \notin origin[b.id].seen /\ b \notin origin[a.id].seen)

\* two overlapping events of one team are stored, both created by POST
\* /api/events after a conflict check that found nothing
C6_Witness ==
  \E a, b \in events :
    /\ a.id # b.id
    /\ a.team = b.team
    /\ Overlap(a, b)
    /\ origin[a.id].op = "create"
    /\ origin[b.id].op = "create"

\* this step serves a cleanupOldLogs call
CleanupStep ==
  \E r \in Slots : nops' = nops + 1 /\ rq'[r].op = "cleanup" /\ rq'[r].pc = "done"

\* C7: no step other than a cleanupOldLogs call removes or changes a
\* committed audit row: the audit log only grows at its end.
C7_AuditAppendOnly ==
  [][~CleanupStep => IsPrefix(audit_logs, audit_logs')]_vars

\* an update has committed a second audit row for a record that already had one
C7_Witness ==
  /\ \E r \in Slots : rq[r].op = "update" /\ rq[r].pc = "done" /\ rq[r].status = 200
  /\ \E i, j \in 1..Len(audit_logs) :
       i < j /\ audit_logs[i].record_id = audit_logs[j].record_id

\* C8: every step of duplicateWeekEvents other than its successful commit,
\* a failure at any statement included, leaves the events and the audit log
\* unchanged, and a failed duplication discards its transaction.
C8_FailedDuplicationCommitsNothing ==
  [][\A r \in Slots :
       (/\ rq[r].op = "duplicate"
        /\ InFlight(r)
        /\ rq'[r] # rq[r]
        /\ ~Answers(r, 200))
       => /\ events' = events
          /\ audit_logs' = audit_logs
          /\ (rq'[r].pc = "done" => rq'[r].trx = EmptyTrx)]_vars

\* a duplication has failed at its commit, after all its inserts and audit rows
C8_Witness ==
  \E r \in Slots :
    /\ rq[r].op = "duplicate"
    /\ rq[r].pc = "done"
    /\ rq[r].status = 500
    /\ rq[r].out.message = StorageError("dw_commit")

\* the columns duplicateWeekEvents copies from a source event
CopiedColumns == {"title", "team", "animator", "color", "description", "metadata"}

\* row c is the copy of row e made by user uid, moved by `days` whole days
IsCopy(c, e, uid, days) ==
  /\ \A col \in CopiedColumns : c[col] = e[col]
  /\ c.created_by = uid
  /\ c.start_time = e.start_time + days * DayHours
  /\ c.end_time = e.end_time + days * DayHours

\* the whole days between two week starts: the d of least magnitude with
\* |target - source| < (|d| + 1) days, signed as target - source
WholeDays(source, target) ==
  CHOOSE d \in -8..8 :
    IF target >= source
    THEN d >= 0 /\ d * DayHours <= target - source /\ target - source < (d + 1) * DayHours
    ELSE d <= 0 /\ d * DayHours >= target - source /\ target - source > (d - 1) * DayHours

\* C9: a duplicateWeekEvents call with overwrite = false that succeeds on
\* the N events of the source week returns N new rows, one per source
\* event, with title, team, animator, color, description and metadata
\* copied, created_by the caller, start and end both moved by the whole
\* days between the two week starts; it commits one CREATE audit row per
\* copy, holding the copy, and leaves the stored events as they were.
C9_DuplicateCopies ==
  [][\A r \in Slots :
       (rq[r].pc = "dw_commit" /\ ~rq[r].arg.overwrite /\ Answers(r, 200))
       => LET a == rq[r].arg
              source == getWeekEvents(events, a.source_week, a.team)
              N == Cardinality(source)
              out == rq'[r].out
              copies == {out[i] : i \in 1..Len(out)}
              days == WholeDays(a.source_week, a.target_week)
          IN /\ Len(out) = N
             /\ Cardinality(Ids(copies)) = N
             /\ Ids(copies) \cap Ids(events) = {}
             /\ events' = events \cup copies
             /\ \E f \in [1..N -> source] :
                  /\ \A i, j \in 1..N : i # j => f[i] # f[j]
                  /\ \A i \in 1..N : IsCopy(out[i], f[i], rq[r].uid, days)
             /\ Len(Appended) = N
             /\ \A i \in 1..N :
                  /\ Appended[i].action = "CREATE"
                  /\ Appended[i].table_name = "events"
                  /\ Appended[i].record_id = out[i].id
                  /\ Appended[i].user_uid = rq[r].uid
                  /\ Appended[i].old_values = None
                  /\ Appended[i].new_values = Some(JSONstringify(out[i]))]_vars

\* a duplication without overwrite has copied two events, one of them
\* created by another user, to a week that starts a fraction of a day later
C9_Witness ==
  \E r \in Slots :
    /\ rq[r].op = "duplicate"
    /\ rq[r].pc = "done"
    /\ rq[r].status = 200
    /\ ~rq[r].arg.overwrite
    /\ (rq[r].arg.target_week - rq[r].arg.source_week) % DayHours # 0
    /\ Len(rq[r].out) = 2
    /\ \E e \in events : e.start_time < rq[r].arg.target_week /\ e.created_by # rq[r].uid

\* C10: every event row the overwrite step of duplicateWeekEvents removes
\* has one DELETE audit row of its own, holding that row as old_values,
\* committed with the removal, also when other requests commit events into
\* the target week while the duplication runs.
C10_OverwriteRemovalsAudited ==
  [][\A r \in Slots :
       (rq[r].pc = "dw_commit" /\ rq[r].arg.overwrite /\ Answers(r, 200))
       => \A e \in events :
            e.id \notin Ids(events')
            => /\ Logged("DELETE", e.id) = 1
               /\ \E i \in 1..Len(Appended) :
                    /\ Appended[i].action = "DELETE"
                    /\ Appended[i].record_id = e.id
                    /\ Appended[i].old_values = Some(JSONstringify(e))]_vars

\* the response of q is the one a storage failure gets
GenericFailure(q) == q.status = 500 /\ q.out.error = "Erreur serveur"

\* C11: a duplication whose source week holds no event of the team fails,
\* whatever the overwrite flag, leaving the events and the audit log as they
\* were, with a response that differs in status or error label from the
\* response to a storage failure.
C11_EmptySourceSurfacedDistinctly ==
  [][\A r \in Slots :
       (/\ rq[r].pc = "dw_source"
        /\ rq'[r].pc = "done"
        /\ rq'[r].out.message = "no source event")
       => /\ events' = events
          /\ audit_logs' = audit_logs
          /\ rq'[r].status >= 400
          /\ ~GenericFailure(rq'[r])]_vars

EntriesFor(log, action, e, side) ==
  {j \in 1..Len(log) :
     /\ log[j].table_name = "events"
     /\ log[j].action = action
     /\ log[j].record_id = e.id
     /\ log[j][side] = Some(JSONstringify(e))}

StorageFailure(q) == q.status = 500 /\ q.out.message # "not found"

\* C14: an update or delete request that is answered while its event id is
\* not stored, whether the event never existed or was deleted by another
\* request in the meantime, gets a client error (not found), never a success
\* or a server failure, unless a storage statement failed; and it leaves
\* the events and the audit log unchanged.
C14_MissingEventIsNotFound ==
  [][\A r \in Slots :
       (/\ rq[r].op \in {"update", "delete"}
        /\ InFlight(r)
        /\ rq'[r].pc = "done"
        /\ ~IsSome(getEventById(events, rq[r].arg.id))
        /\ ~StorageFailure(rq'[r]))
       => /\ rq'[r].status >= 400
          /\ rq'[r].status < 500
          /\ events' = events
          /\ audit_logs' = audit_logs]_vars

\* the stored events that overlap the interval and team of body, the event
\* of id exclude[1] left out when exclude is given
Overlapping(body, exclude) ==
  {e \in events :
     /\ e.team = body.team
     /\ Overlap(e, body)
     /\ (IsSome(exclude) => e.id # exclude[1])}

\* C15: a create or update request that reaches the conflict check while
\* its interval overlaps a stored event of its team, other than the event
\* being updated, is answered 409 with the id, title, start and end of every
\* overlapping event, and writes neither an event nor an audit row.
C15_ConflictRejected ==
  [][\A r \in Slots :
       (/\ rq[r].pc = "check"
        /\ rq'[r] # rq[r]
        /\ ~GenericFailure(rq'[r])
        /\ Overlapping(rq[r].loc.body, rq[r].loc.id) # {})
       => /\ rq'[r].pc = "done"
          /\ rq'[r].status = 409
          /\ \A e \in Overlapping(rq[r].loc.body, rq[r].loc.id) :
               [id |-> e.id, title |-> e.title, start |-> e.start_time,
                end |-> e.end_time] \in rq'[r].out
          /\ events' = events
          /\ audit_logs' = audit_logs]_vars

\* a create request has been refused with a list of two conflicting events
C15_Witness ==
  \E r \in Slots :
    /\ rq[r].op = "create"
    /\ rq[r].pc = "done"
    /\ rq[r].status = 409
    /\ Cardinality(rq[r].out) = 2

\* what a conflict list shows of event e
Summary(e) == [id |-> e.id, title |-> e.title, start |-> e.start_time, end |-> e.end_time]

\* C16: a conflict check given the id of the event being updated never
\* reports that event and still reports every other stored event of the
\* team that overlaps the candidate interval; so an update that keeps the
\* event's interval, or moves it to an interval that overlaps its old one,
\* is not refused as a conflict when no other stored event of the team
\* overlaps the new interval.
C16_OwnEventExcluded ==
  [][\A r \in Slots :
       /\ (/\ nops' = nops + 1
           /\ rq'[r].op = "check"
           /\ rq'[r].pc = "done"
           /\ IsSome(rq'[r].arg.exclude_event_id))
          => /\ \A c \in rq'[r].out.conflicts : c.id # rq'[r].arg.exclude_event_id[1]
             /\ \A e \in Overlapping(rq'[r].arg, rq'[r].arg.exclude_event_id) :
                  Summary(e) \in rq'[r].out.conflicts
       /\ (/\ rq[r].op = "update"
           /\ rq[r].pc = "check"
           /\ rq'[r].pc = "done"
           /\ rq'[r].status = 409)
          => /\ \A c \in rq'[r].out : c.id # rq[r].arg.id
             /\ LET own == RowOf(events, rq[r].arg.id)
                    body == rq[r].loc.body
                IN (\/ Overlap(own, body)
                    \/ (own.start_time = body.start_time /\ own.end_time = body.end_time))
                   => Overlapping(body, Some(rq[r].arg.id)) # {}]_vars

\* the ids the default of column id has handed out so far (a fresh id for
\* every insert), those of deleted rows included
IssuedIds == 1..(nextId - 1)

\* the audit rows of event id, in the order in which they were committed
CommittedHistory(id) ==
  SelectSeq(audit_logs, LAMBDA l : l.table_name = "events" /\ l.record_id = id)

\* C17: whatever the interleaving of the requests served before,
\* getRecordHistory of a record returns all and only the audit entries of
\* that record, in the order in which they were committed, and every UPDATE
\* entry of the result carries a change list.
C17_HistoryInCommitOrder ==
  [][\A r \in Slots, id \in EventIds :
       getRecordHistory(r, "events", id)
       => /\ rq'[r].status = 200
          /\ Len(rq'[r].out) = Len(CommittedHistory(id))
          /\ \A k \in 1..Len(CommittedHistory(id)) :
               LET l == CommittedHistory(id)[k]
                   h == rq'[r].out[k]
               IN /\ h.record_id = id
                  /\ h.action = l.action
                  /\ h.user_uid = l.user_uid
                  /\ h.created_at = l.created_at
                  /\ h.action = "UPDATE" => "changes" \in DOMAIN h]_vars

\* the step is the call cleanupOldLogs(d) in slot r
CleanupCall(r, d) ==
  /\ nops' = nops + 1
  /\ rq'[r].op = "cleanup"
  /\ rq'[r].pc = "done"
  /\ rq'[r].arg.retentionDays = d

\* the audit rows created before the instant `cutoff`
Before(log, cutoff) == {i \in 1..Len(log) : log[i].created_at < cutoff}

\* C18, as amended: cleanupOldLogs(d) deletes exactly the audit rows created
\* before now - d, keeps every other row in place, and returns the number
\* deleted; it leaves no row that a second call with the same d at the same
\* clock reading would delete.
C18_CleanupExact ==
  [][\A r \in Slots, d \in RetentionDays :
       CleanupCall(r, d)
       => /\ audit_logs' = SelectSeq(audit_logs, LAMBDA e : e.created_at >= now - d)
          /\ rq'[r].out = Cardinality(Before(audit_logs, now - d))
          /\ now' = now
          /\ Before(audit_logs', now' - d) = {}]_vars

\* a call has deleted one audit row and kept a later one
C18_Witness ==
  \E r \in Slots :
    /\ rq[r].op = "cleanup"
    /\ rq[r].pc = "done"
    /\ rq[r].out = 1
    /\ Len(audit_logs) = 1
    /\ audit_logs[1].created_at = now - rq[r].arg.retentionDays

\* C18, as stated: a call cleanupOldLogs(d) that follows another call with
\* the same d, no request served and so no audit row written in between,
\* deletes nothing and leaves the log unchanged.
C18_SecondCallDeletesNothing ==
  [][\A r \in Slots, d \in RetentionDays :
       (/\ CleanupCall(r, d)
        /\ rq[r].op = "cleanup"
        /\ rq[r].pc = "done"
        /\ rq[r].arg.retentionDays = d)
       => /\ rq'[r].out = 0
          /\ audit_logs' = audit_logs]_vars

\* the keys of an object
Keys(object) == {object.entries[i].key : i \in 1..Len(object.entries)}

\* deep structural equality of two values: objects are equal when they have
\* the same keys with equal values, whatever the order of their keys
RECURSIVE DeepEqual(_, _)
DeepEqual(a, b) ==
  /\ a.kind = b.kind
  /\ a.kind = "string" => a.text = b.text
  /\ a.kind = "object"
     => /\ Keys(a) = Keys(b)
        /\ \A k \in Keys(a) : DeepEqual(Member(a, k), Member(b, k))

\* one item per key of `after` whose value differs from the value in
\* `before`, from entry i on, in the key order of `after`
RECURSIVE DifferingFrom(_, _, _)
DifferingFrom(before, after, i) ==
  IF i > Len(after.entries) THEN <<>>
  ELSE LET e == after.entries[i]
       IN (IF DeepEqual(Member(before, e.key), e.value) THEN <<>>
           ELSE <<[field |-> e.key, old_value |-> Member(before, e.key), new_value |-> e.value]>>)
          \o DifferingFrom(before, after, i + 1)

\* C19: calculateChanges(before, after) returns one item {field, old value,
\* new value} for exactly the keys of after whose value differs from the
\* value in before under deep structural equality, in the key order of
\* after; in particular nothing when before equals after.
C19_ChangesAreDeepDifferences ==
  \A r \in Slots :
    (rq[r].op = "changes" /\ rq[r].pc = "done")
    => /\ rq[r].out = DifferingFrom(rq[r].arg.oldValues, rq[r].arg.newValues, 1)
       /\ rq[r].arg.oldValues = rq[r].arg.newValues => rq[r].out = <<>>

\* the template-event definitions of template t
Definitions(t) ==
  LET v == pgJson(t.template_events)
  IN IF v.kind = "array" THEN v.items ELSE JSONvalue(v.text).items

\* the step ends the apply request of slot r, by something other than a
\* failure of the storage
ApplyEnds(r) ==
  /\ rq[r].op = "apply"
  /\ InFlight(r)
  /\ rq'[r].pc = "done"
  /\ rq'[r].status \notin {403, 404}
  /\ rq'[r].status = 500 => rq'[r].out.message # StorageError(rq[r].pc)

\* C20: applying a template to a target week creates one event per
\* template-event definition, in definition order: the event of a definition
\* with day offset d starts d days after the day of the target week start, at
\* the start hour, ends on the same day at the end hour, and carries the
\* template's team and the actor as creator.
C20_OneEventPerDefinition ==
  [][\A r \in Slots :
       ApplyEnds(r)
       => LET template == CHOOSE t \in templates : t.id = rq[r].arg.id
              definitions == Definitions(template)
              day == (rq[r].arg.target_week \div DayHours) * DayHours
          IN /\ rq'[r].status = 200
             /\ Len(rq'[r].out.events) = Len(definitions)
             /\ \A k \in 1..Len(definitions) :
                  LET e == rq'[r].out.events[k]
                      d == IF "day_offset" \in DOMAIN definitions[k]
                           THEN definitions[k].day_offset ELSE 0
                  IN /\ e \in events'
                     /\ e.title = definitions[k].title
                     /\ e.start_time = day + d * DayHours + definitions[k].start_hour
                     /\ e.end_time = day + d * DayHours + definitions[k].end_hour
                     /\ e.team = template.team
                     /\ e.created_by = rq[r].uid]_vars

\* the step is a step of the apply request of slot r, other than a failure
\* of the storage
ApplyStep(r) ==
  /\ rq[r].op = "apply"
  /\ InFlight(r)
  /\ rq'[r] # rq[r]
  /\ ~(/\ rq'[r].pc = "done"
       /\ rq'[r].status = 500
       /\ rq'[r].out.message = StorageError(rq[r].pc))

C22_StaffNeverMutates ==
  [][events' # events
     => \E r \in Slots :
          /\ InFlight(r)
          /\ rq'[r] # rq[r]
          /\ users[rq[r].uid].role \in {"admin", "manager"}]_vars

\* C23: every event row committed by the request of a user who is not admin,
\* inserted or written over an earlier version, has a team the user belongs
\* to.
C23_WritesStayInOwnTeams ==
  [][\A r \in Slots :
       (/\ InFlight(r)
        /\ rq'[r] # rq[r]
        /\ users[rq[r].uid].role # "admin")
       => \A e \in events' \ events : e.team \in users[rq[r].uid].teams]_vars

\* C24: the created_by of every stored event, and its last_modified_by when
\* set, is the uid of a stored user.
C24_EventUsersExist ==
  \A e \in events :
    /\ e.created_by \in DOMAIN users
    /\ e.last_modified_by # NULL => e.last_modified_by \in DOMAIN users

\* C25: in every transaction, a step that appends the audit row of a
\* mutation comes after the statement that performs the mutation: the
\* transaction has already inserted the row of a CREATE entry, updated the
\* row of an UPDATE entry, deleted the row of a DELETE entry.
C25_AuditAfterMutation ==
  [][\A r \in Slots :
       (InFlight(r) /\ Len(rq'[r].trx.aud) = Len(rq[r].trx.aud) + 1)
       => LET l == rq'[r].trx.aud[Len(rq'[r].trx.aud)]
              t == rq[r].trx
          IN /\ l.action = "CREATE" => l.record_id \in Ids(t.ins)
             /\ l.action = "UPDATE" => l.record_id \in Ids(t.upd) \cup Ids(t.ins)
             /\ l.action = "DELETE" => l.record_id \in t.del]_vars

\* C26: while a create or update request is between its conflict check and
\* the write the check guards, no other request commits a change of the
\* events table.
C26_NoCommitBetweenCheckAndWrite ==
  [][\A r, o \in Slots :
       (/\ r # o
        /\ rq[r].op \in {"create", "update"}
        /\ rq[r].pc \in {"ce_insert", "ue_select", "ue_update"}
        /\ rq'[o] # rq[o])
       => events' = events]_vars

C28_SnapshotsMatchRows ==
  [][\A i \in (Len(audit_logs) + 1)..Len(audit_logs') :
       LET l == audit_logs'[i]
       IN l.table_name = "events" =>
            /\ l.action = "CREATE" =>
                 /\ l.old_values = None
                 /\ \E e \in events' \ events :
                      e.id = l.record_id /\ l.new_values = Some(JSONstringify(e))
            /\ l.action = "UPDATE" =>
                 /\ \E e \in events :
                      e.id = l.record_id /\ l.old_values = Some(JSONstringify(e))
                 /\ \E e \in events' :
                      /\ e.id = l.record_id
                      /\ l.new_values = Some(JSONstringify(e))
                      /\ e.last_modified_by = l.user_uid
            /\ l.action = "DELETE" =>
                 /\ l.new_values = None
                 /\ \E e \in events :
                      /\ e.id = l.record_id
                      /\ e.id \notin Ids(events')
                      /\ l.old_values = Some(JSONstringify(e))]_vars

\* C29: the committed audit rows of an event form a chain: the old values of
\* each row after the first are the new values of the row before it.
C29_HistoryIsAChain ==
  \A id \in IssuedIds :
    LET h == CommittedHistory(id)
    IN \A i \in 1..(Len(h) - 1) : h[i + 1].old_values = h[i].new_values

\* C30: the committed audit rows of an event hold at most one CREATE row,
\* which is then the first, and at most one DELETE row, which is then the
\* last; so no row of the event is committed after its DELETE row.
C30_OneCreateOneDelete ==
  \A id \in IssuedIds :
    LET h == CommittedHistory(id)
    IN \A i \in 1..Len(h) :
         /\ h[i].action = "CREATE" => i = 1
         /\ h[i].action = "DELETE" => i = Len(h)

C32_OverwriteFrame ==
  [][\A r \in Slots :
       (/\ InFlight(r)
        /\ rq'[r] # rq[r]
        /\ rq[r].op \in {"duplicate", "apply"}
        /\ events' # events)
       => LET q == rq[r]
              team == IF q.op = "duplicate" THEN q.arg.team ELSE q.loc.template.team
          IN \A e \in events :
               e \notin events' =>
                 /\ q.arg.overwrite
                 /\ e.team = team
                 /\ q.arg.target_week <= e.start_time
                 /\ e.start_time <= WeekEnd(q.arg.target_week)]_vars

\* a duplication that overwrote has answered, a DELETE row is committed and
\* an event of another team is stored
C32_Witness ==
  \E r \in Slots :
    /\ rq[r].pc = "done"
    /\ rq[r].op = "duplicate"
    /\ rq[r].status = 200
    /\ rq[r].arg.overwrite
    /\ \E i \in 1..Len(audit_logs) : audit_logs[i].action = "DELETE"
    /\ \E e \in events : e.team # rq[r].arg.team

----------------------------------------------------------------------------
(* POST /api/planning/bulk-create sent by every user, its statements failing
   or not *)

NextBulk ==
  \/ \E uid \in Actors, arg \in BulkArgs : StartBulk(1, uid, arg)
  \/ createEvent_insert(1)
  \/ createEvent_logAction(1)
  \/ createEvent_commit(1)
  \/ StatementFails(1)

SpecBulk == Init /\ [][NextBulk]_vars

\* the 1-based positions of the request's events that no error names
CreatedPositions(q) ==
  SelectSeq([i \in 1..Len(q.arg.events) |-> i],
            LAMBDA i : \A j \in 1..Len(q.out.errors) : q.out.errors[j].index # i - 1)

\* C33: a bulk-create request of N events answers with created events and
\* errors that together number N; the errors carry the 0-based positions of
\* their events in increasing order; the created events are the other events
\* of the request in input order, each stored with the request's columns and
\* with a CREATE audit row of its own; and every commit of the request adds
\* one event and one audit row and removes none.
C33_BulkEachInItsOwnTransaction ==
  [][\A r \in Slots :
       /\ (/\ rq'[r] # rq[r]
           /\ rq'[r].op = "bulk"
           /\ rq'[r].pc = "done"
           /\ rq'[r].status = 200)
          => LET q == rq'[r]
                 N == Len(q.arg.events)
                 errors == q.out.errors
                 created == q.out.created_events
                 kept == CreatedPositions(q)
             IN /\ Len(created) + Len(errors) = N
                /\ \A j \in 1..Len(errors) : errors[j].index \in 0..(N - 1)
                /\ \A j \in 1..(Len(errors) - 1) : errors[j].index < errors[j + 1].index
                /\ Len(kept) = Len(created)
                /\ \A j \in 1..Len(created) :
                     /\ \A c \in DOMAIN q.arg.events[kept[j]] :
                          created[j][c] = q.arg.events[kept[j]][c]
                     /\ created[j].created_by = q.uid
                     /\ created[j] \in events'
                     /\ \E i \in 1..Len(audit_logs') :
                          /\ audit_logs'[i].action = "CREATE"
                          /\ audit_logs'[i].record_id = created[j].id
                          /\ audit_logs'[i].new_values = Some(JSONstringify(created[j]))
       /\ (rq[r].op = "bulk" /\ InFlight(r) /\ events' # events)
          => /\ events \subseteq events'
             /\ Cardinality(events' \ events) = 1
             /\ Len(audit_logs') = Len(audit_logs) + 1]_vars

\* a bulk-create request of two events has answered: its first event failed
\* and its second is created, or its first is created and its second failed
C33_Witness ==
  \E r \in Slots :
    /\ rq[r].op = "bulk"
    /\ rq[r].pc = "done"
    /\ rq[r].status = 200
    /\ Len(rq[r].arg.events) = 2
    /\ Len(rq[r].out.errors) = 1
    /\ Len(rq[r].out.created_events) = 1
    /\ rq[r].out.errors[1].index = 0
    /\ rq[r].out.created_events[1] \in events

\* C34: the conflicts listed in a response to a user who is no admin, by the
\* conflict check route or by the 409 of a create or update request, are
\* events of teams the user belongs to.
C34_NoForeignTeamData ==
  [][\A r \in Slots :
       /\ (/\ rq[r].pc = "check"
           /\ rq'[r].pc = "done"
           /\ rq'[r].status = 409
           /\ users[rq[r].uid].role # "admin")
          => \A c \in rq'[r].out : RowOf(events, c.id).team \in users[rq[r].uid].teams
       /\ (/\ rq'[r] # rq[r]
           /\ rq'[r].op = "check"
           /\ rq'[r].status = 200
           /\ users[rq'[r].uid].role # "admin")
          => \A c \in rq'[r].out.conflicts :
               RowOf(events, c.id).team \in users[rq'[r].uid].teams]_vars

----------------------------------------------------------------------------
(* POST and PUT /api/events with bodies that name columns the schema does not
   know, while the clock advances *)

\* a body that also names id, created_by, created_at, last_modified_by and
\* updated_at
ForgedBody ==
  Merge(EventBody(PlainPayload, <<12, 14>>, "bar"),
        [id |-> 9, created_by |-> "mgr1", created_at |-> 5, last_modified_by |-> "admin1",
         updated_at |-> 5])

ForgedBodies == {EventBody(FullPayload, <<11, 12>>, "bar"), ForgedBody}

NextForged ==
  \/ EventSteps(1, Actors, ForgedBodies)
  \/ Tick

SpecForged == Init /\ [][NextForged]_vars

\* C35: the commit of an update request stores the same ids as before; the
\* row of the request keeps its id, created_by and created_at, changes in
\* the fields of the event schema, last_modified_by and updated_at only, and
\* is last modified by the request's user; every other row is unchanged.
C35_UpdateKeepsIdentity ==
  [][\A r \in Slots :
       (rq[r].op = "update" /\ InFlight(r) /\ events' # events)
       => /\ Ids(events') = Ids(events)
          /\ \A e \in events :
               LET n == RowOf(events', e.id)
               IN IF e.id = rq[r].arg.id
                  THEN /\ \A c \in EventColumns \ (KnownEventKeys
                                                    \cup {"last_modified_by", "updated_at"}) :
                            n[c] = e[c]
                       /\ n.last_modified_by = rq[r].uid
                  ELSE n = e]_vars

\* an update whose body names another id, creator and creation time has
\* answered 200, and the stored row has none of the three
C35_Witness ==
  \E r \in Slots :
    /\ rq[r].op = "update"
    /\ rq[r].pc = "done"
    /\ rq[r].status = 200
    /\ Has(rq[r].arg.body, "created_by")
    /\ \E e \in events :
         /\ e.id = rq[r].arg.id
         /\ e.id # rq[r].arg.body.id
         /\ e.created_by # rq[r].arg.body.created_by
         /\ e.created_at # rq[r].arg.body.created_at
         /\ e.last_modified_by = rq[r].uid

\* C36: after a user-management request that was carried out, the admin who
\* sent it still has a user row, of role admin.
C36_AdminKeepsAccess ==
  [][\A r \in Slots :
       (/\ rq'[r] # rq[r]
        /\ rq'[r].op \in {"user_update", "user_delete"}
        /\ rq'[r].status = 200)
       => /\ rq'[r].uid \in DOMAIN users'
          /\ users'[rq'[r].uid].role = "admin"]_vars

----------------------------------------------------------------------------
(* The administration of users with statements that fail *)

FailingUserSteps(r) ==
  \/ \E uid \in Actors, target \in UserIds, role \in NewRoles,
        k \in 1..Len(UpdateUserStatements) : updateUser_throws(r, uid, target, role, k)
  \/ \E uid \in Actors, role \in NewRoles : createUser(r, uid, role)

NextClaims ==
  \/ UserSteps(1)
  \/ FailingUserSteps(1)

SpecClaims == Init /\ [][NextClaims]_vars

\* C37: a request that creates or updates a user and is not answered 2xx,
\* its transaction rolled back, leaves the role claim of every uid as it was.
C37_RollbackKeepsClaims ==
  [][\A r \in Slots :
       (/\ rq'[r] # rq[r]
        /\ rq'[r].op \in {"user_create", "user_update"}
        /\ rq'[r].status >= 300)
       => customClaims' = customClaims]_vars

====
